---- MODULE Spec2Model ----
(***************************************************************************)
(* A model of seq_net.py: the normalization+MLP block NnSeqBnMLP, the      *)
(* three dual-branch sequence-regression networks RnnRegNet,               *)
(* DilatedCNNRegNet and TransformerRegNet, their get_obj_value, and the    *)
(* step-by-step harness check_rnn_in_real_trading.                         *)
(*                                                                         *)
(* Tensors are functions over 0-based index ranges, as in the source:      *)
(* a sequence tensor is  [0..T-1 -> [0..B-1 -> [0..D-1 -> Int]]].          *)
(* Real numbers are fixed-point integers with unit Scale; the elementwise  *)
(* nonlinearities are piecewise-linear integer versions of the library's.  *)
(* Modules are in training mode, the mode a module is in after             *)
(* construction (the source never calls eval()).                           *)
(***************************************************************************)
EXTENDS Integers, Sequences, FiniteSets, TLC

VARIABLES pc, net, inp, hid, ret, calls, obj, t, output_seq, output_seq2

vars == <<pc, net, inp, hid, ret, calls, obj, t, output_seq, output_seq2>>

(***************************************************************************)
(* Bounds of the model.                                                    *)
(***************************************************************************)
\* the fixed-point unit: the real number 1.0
Scale == 8
\* longest sequence (axis 0 of a sequence tensor)
MaxSeqLen == 3
\* largest batch (axis 1 of a sequence tensor)
MaxBatch == 2

\* Python's None
None == <<>>

(***************************************************************************)
(* Integer helpers.                                                        *)
(***************************************************************************)
Max(a, b) == IF a >= b THEN a ELSE b
Min(a, b) == IF a <= b THEN a ELSE b
Clamp(x, lo, hi) == Max(lo, Min(hi, x))
Abs(x) == IF x >= 0 THEN x ELSE -x
\* division rounding toward zero, as a real division followed by truncation
Quot(a, b) == IF a >= 0 THEN a \div b ELSE -((-a) \div b)

\* the function f tabulated over its domain (the value is f)
Eval(f) == f @@ <<>>

RECURSIVE SumTo(_, _)
\* sum of f[0] .. f[n-1]
SumTo(f, n) == IF n <= 0 THEN 0 ELSE f[n - 1] + SumTo(f, n - 1)

RECURSIVE IsqrtFrom(_, _)
IsqrtFrom(v, r) == IF (r + 1) * (r + 1) > v THEN r ELSE IsqrtFrom(v, r + 1)
\* integer square root
Isqrt(v) == IsqrtFrom(v, 0)

\* number of entries along the leading axis of a tensor
Size(x) == Cardinality(DOMAIN x)
\* the shape of a 3-D tensor with no empty axis
Shape3(x) == <<Size(x), Size(x[0]), Size(x[0][0])>>
\* the shape of a 2-D tensor with no empty axis
Shape2(x) == <<Size(x), Size(x[0])>>

(***************************************************************************)
(* Elementwise nonlinearities (torch.nn.GELU, Tanh, Sigmoid, relu).        *)
(***************************************************************************)
GELU(x) ==
    IF x >= Scale THEN x - (Scale \div 6)
    ELSE IF x >= 0 THEN (5 * x) \div 6
    ELSE IF x >= -Scale THEN Quot(x, 6)
    ELSE IF x >= -(3 * Scale) THEN Quot(-(x + 3 * Scale), 12)
    ELSE 0
Tanh(x) == Clamp(x, -Scale, Scale)
Sigmoid(x) == Clamp((x + 2 * Scale) \div 4, 0, Scale)
Relu(x) == Max(0, x)

(***************************************************************************)
(* Parameters.  A module's weights are arbitrary numbers (orthogonal       *)
(* initialisation, then training); the model derives them from a seed p.   *)
(***************************************************************************)
\* between -1.0 and 1.0 in steps of a quarter
Weight(p, j, i) == Quot((((p * 7 + j * 3 + i * 5 + p * j * i + 1) % 9) - 4) * Scale, 4)
\* between -0.5 and 0.5 in steps of a quarter
Bias(p, j) == Quot((((p * 3 + 2 * j + 1) % 5) - 2) * Scale, 4)

\* nn.Linear(in, out) on one row x:  y = W x + b
LinearRow(p, out, x) ==
    Eval([j \in 0..(out - 1) |->
        Quot(SumTo(Eval([i \in 0..(Size(x) - 1) |-> Weight(p, j, i) * x[i]]), Size(x)), Scale)
        + Bias(p, j)])

\* mean and biased variance of the entries v[0..n-1]
MeanOf(v, n) == Quot(SumTo(v, n), n)
VarOf(v, n) ==
    LET m == MeanOf(v, n)
    IN  SumTo(Eval([i \in 0..(n - 1) |-> (v[i] - m) * (v[i] - m)]), n) \div n
\* (x - mean) / sqrt(var + eps), in fixed point
Normalize(x, mean, var) == Quot((x - mean) * Scale, Isqrt(var) + 1)

\* nn.LayerNorm(width) on one row: statistics over the row's features
LayerNormRow(x) ==
    LET n == Size(x)
        m == MeanOf(x, n)
        v == VarOf(x, n)
    IN  Eval([k \in 0..(n - 1) |-> Normalize(x[k], m, v)])

\* nn.BatchNorm1d(width) in training mode on a matrix of rows: statistics
\* per feature over all the rows of the batch
BatchNorm1dRows(rows) ==
    LET n == Size(rows)
        w == Size(rows[0])
        col(k) == Eval([r \in 0..(n - 1) |-> rows[r][k]])
    IN  Eval([r \in 0..(n - 1) |->
            Eval([k \in 0..(w - 1) |-> Normalize(rows[r][k], MeanOf(col(k), n), VarOf(col(k), n))])])

(***************************************************************************)
(* NnSeqBnMLP                                                              *)
(***************************************************************************)
\* a layer of an nn.Sequential: kind, the width it was constructed for,
\* the width it produces, and its parameter seed
Layer(kind, in, out, p) == [kind |-> kind, in |-> in, out |-> out, p |-> p]

RECURSIVE MlpLoop(_, _, _, _, _)
\* the loop "for i in range(1, len(dims) - 1)" of __init__; dims is a
\* sequence, so the source's dims[i] is dims[i + 1] here
MlpLoop(dims, if_layer_norm, p, i, mlp_list) ==
    IF i >= Len(dims) - 1 THEN mlp_list
    ELSE MlpLoop(dims, if_layer_norm, p, i + 1,
            mlp_list
            \o <<Layer("GELU", 0, 0, 0)>>
            \o (IF if_layer_norm
                THEN <<Layer("LayerNorm", dims[i + 1], dims[i + 1], 0)>>
                ELSE <<>>)
            \o <<Layer("Linear", dims[i + 1], dims[i + 2], p + i)>>)

\* the list passed to nn.Sequential
MlpList(dims, if_inp_norm, if_layer_norm, activation, p) ==
    MlpLoop(dims, if_layer_norm, p, 1,
        (IF if_inp_norm
         THEN <<Layer("BatchNorm1d", dims[1], dims[1], 0)>>
         ELSE <<>>)
        \o <<Layer("Linear", dims[1], dims[2], p)>>)
    \o (IF activation # None THEN <<Layer(activation.kind, 0, 0, 0)>> ELSE <<>>)

\* Python's list[k] for a possibly negative k, as a position 1..Len(list)
PyPos(list, k) == IF k < 0 THEN Len(list) + k + 1 ELSE k + 1

\* the index __init__ hands to layer_init_with_orthogonal(..., std=0.1)
OrthogonalTargetSwapped(activation) == IF activation # None THEN -1 ELSE -2
OrthogonalTarget(activation) == IF activation # None THEN -2 ELSE -1

\* NnSeqBnMLP.__init__: the module, with the set of positions of self.mlp
\* on which layer_init_with_orthogonal was called
NnSeqBnMLP_init(dims, if_inp_norm, if_layer_norm, activation, p) ==
    LET mlp == MlpList(dims, if_inp_norm, if_layer_norm, activation, p)
    IN  [kind |-> "NnSeqBnMLP",
         dims |-> dims,
         if_inp_norm |-> if_inp_norm,
         if_layer_norm |-> if_layer_norm,
         activation |-> activation,
         mlp |-> mlp,
         orthogonal |-> {PyPos(mlp, OrthogonalTarget(activation))}]

\* one layer of the stack applied to a matrix of rows
ApplyLayer(layer, rows) ==
    CASE layer.kind = "Linear" ->
            Eval([r \in DOMAIN rows |-> LinearRow(layer.p, layer.out, rows[r])])
      [] layer.kind = "LayerNorm" ->
            Eval([r \in DOMAIN rows |-> LayerNormRow(rows[r])])
      [] layer.kind = "BatchNorm1d" -> BatchNorm1dRows(rows)
      [] layer.kind = "GELU" ->
            Eval([r \in DOMAIN rows |-> Eval([k \in DOMAIN rows[r] |-> GELU(rows[r][k])])])
      [] layer.kind = "Tanh" ->
            Eval([r \in DOMAIN rows |-> Eval([k \in DOMAIN rows[r] |-> Tanh(rows[r][k])])])

\* whether a layer accepts rows of width w (the library raises otherwise)
LayerAccepts(layer, w) ==
    IF layer.kind \in {"Linear", "LayerNorm", "BatchNorm1d"} THEN layer.in = w ELSE TRUE
\* the width a layer produces from rows of width w
LayerWidth(layer, w) == IF layer.kind = "Linear" THEN layer.out ELSE w

RECURSIVE SequentialFrom(_, _, _)
SequentialFrom(mlp, i, rows) ==
    IF i > Len(mlp) THEN rows ELSE SequentialFrom(mlp, i + 1, ApplyLayer(mlp[i], rows))
\* nn.Sequential.forward: the layers in order
Sequential(mlp, rows) == SequentialFrom(mlp, 1, rows)

RECURSIVE WidthsFrom(_, _, _)
\* the widths met along the stack: <<ok, width of the result>>
WidthsFrom(mlp, i, w) ==
    IF i > Len(mlp) THEN <<TRUE, w>>
    ELSE IF ~LayerAccepts(mlp[i], w) THEN <<FALSE, w>>
    ELSE WidthsFrom(mlp, i + 1, LayerWidth(mlp[i], w))
SequentialAccepts(mlp, w) == WidthsFrom(mlp, 1, w)[1]
SequentialWidth(mlp, w) == WidthsFrom(mlp, 1, w)[2]

\* seq.reshape(d0 * d1, -1): row r holds position (r div d1, r mod d1)
Flatten(seq, d0, d1) == Eval([r \in 0..(d0 * d1 - 1) |-> seq[r \div d1][r % d1]])
\* out.reshape(d0, d1, -1)
UnflattenColumnMajor(out, d0, d1) ==
    Eval([i \in 0..(d0 - 1) |-> Eval([b \in 0..(d1 - 1) |-> out[b * d0 + i]])])
Unflatten(out, d0, d1) ==
    Eval([i \in 0..(d0 - 1) |-> Eval([b \in 0..(d1 - 1) |-> out[i * d1 + b]])])

\* NnSeqBnMLP.forward
NnSeqBnMLP_forward(m, seq) ==
    LET d0 == Size(seq)
        d1 == Size(seq[0])
    IN  Unflatten(Sequential(m.mlp, Flatten(seq, d0, d1)), d0, d1)

(***************************************************************************)
(* nn.LSTM and nn.GRU (seq-first: input (T, B, in), state (L, B, hidden)). *)
(* An LSTM's state is the pair (h_n, c_n), a record [h, c]; a GRU's is     *)
(* h_n alone, a record [h].                                                *)
(***************************************************************************)
\* a tensor of zeros of shape (d0, d1, d2)
Zeros3(d0, d1, d2) == Eval([i \in 0..(d0 - 1) |-> Eval([b \in 0..(d1 - 1) |-> Eval([k \in 0..(d2 - 1) |-> 0])])])
\* entrywise a + b and a * b (fixed point) of two vectors
VecAdd(a, b) == Eval([k \in DOMAIN a |-> a[k] + b[k]])
VecMul(a, b) == Eval([k \in DOMAIN a |-> Quot(a[k] * b[k], Scale)])

\* the gate pre-activation  W_g x + b_g + U_g h + c_g  of layer l
Gate(p, l, g, hidden, x, h) ==
    VecAdd(LinearRow(p + 11 * l + g, hidden, x), LinearRow(p + 11 * l + g + 5, hidden, h))

\* the gate and cell activations applied to every entry of the vector v
SigmoidVec(v) == Eval([k \in DOMAIN v |-> Sigmoid(v[k])])
TanhVec(v) == Eval([k \in DOMAIN v |-> Tanh(v[k])])
ReluVec(v) == Eval([k \in DOMAIN v |-> Relu(v[k])])

\* one LSTM cell step for one batch element: the new [h, c]
LSTMCell(p, l, hidden, x, h, c) ==
    LET ig == SigmoidVec(Gate(p, l, 1, hidden, x, h))
        fg == SigmoidVec(Gate(p, l, 2, hidden, x, h))
        gg == TanhVec(Gate(p, l, 3, hidden, x, h))
        og == SigmoidVec(Gate(p, l, 4, hidden, x, h))
        c1 == VecAdd(VecMul(fg, c), VecMul(ig, gg))
    IN  [h |-> VecMul(og, TanhVec(c1)), c |-> c1]

\* one GRU cell step for one batch element: the new h
GRUCell(p, l, hidden, x, h) ==
    LET rg == SigmoidVec(Gate(p, l, 1, hidden, x, h))
        zg == SigmoidVec(Gate(p, l, 2, hidden, x, h))
        ng == TanhVec(VecAdd(LinearRow(p + 11 * l + 3, hidden, x),
                                  VecMul(rg, LinearRow(p + 11 * l + 8, hidden, h))))
    IN  Eval([k \in 0..(hidden - 1) |-> Quot((Scale - zg[k]) * ng[k] + zg[k] * h[k], Scale)])

RECURSIVE LSTMLayerFrom(_, _, _, _, _, _)
\* layer l of an LSTM over the time steps i.. of xs, from the state st =
\* [h, c] (each (B, hidden)); acc holds the outputs of the steps before i
LSTMLayerFrom(rnn, l, xs, i, st, acc) ==
    IF i >= Size(xs) THEN [out |-> acc, h |-> st.h, c |-> st.c]
    ELSE LET step == Eval([b \in DOMAIN xs[i] |->
                        LSTMCell(rnn.p, l, rnn.hidden, xs[i][b], st.h[b], st.c[b])])
             h1 == Eval([b \in DOMAIN xs[i] |-> step[b].h])
             c1 == Eval([b \in DOMAIN xs[i] |-> step[b].c])
         IN  LSTMLayerFrom(rnn, l, xs, i + 1, [h |-> h1, c |-> c1], acc @@ (i :> h1))

RECURSIVE GRULayerFrom(_, _, _, _, _, _)
GRULayerFrom(rnn, l, xs, i, h, acc) ==
    IF i >= Size(xs) THEN [out |-> acc, h |-> h]
    ELSE LET h1 == Eval([b \in DOMAIN xs[i] |-> GRUCell(rnn.p, l, rnn.hidden, xs[i][b], h[b])])
         IN  GRULayerFrom(rnn, l, xs, i + 1, h1, acc @@ (i :> h1))

RECURSIVE LSTMStack(_, _, _, _, _, _)
\* the layers l.. of the LSTM: layer l reads the output sequence of layer
\* l - 1; hs and cs collect the final states of the layers before l
LSTMStack(rnn, l, xs, hx, hs, cs) ==
    IF l >= rnn.num_layers THEN [out |-> xs, hid |-> [h |-> hs, c |-> cs]]
    ELSE LET r == LSTMLayerFrom(rnn, l, xs, 0, [h |-> hx.h[l], c |-> hx.c[l]], <<>>)
         IN  LSTMStack(rnn, l + 1, r.out, hx, hs @@ (l :> r.h), cs @@ (l :> r.c))

RECURSIVE GRUStack(_, _, _, _, _)
GRUStack(rnn, l, xs, hx, hs) ==
    IF l >= rnn.num_layers THEN [out |-> xs, hid |-> [h |-> hs]]
    ELSE LET r == GRULayerFrom(rnn, l, xs, 0, hx.h[l], <<>>)
         IN  GRUStack(rnn, l + 1, r.out, hx, hs @@ (l :> r.h))

\* the default initial states: zeros of shape (num_layers, B, hidden)
LSTMZeroState(rnn, batch) ==
    [h |-> Zeros3(rnn.num_layers, batch, rnn.hidden), c |-> Zeros3(rnn.num_layers, batch, rnn.hidden)]
GRUZeroState(rnn, batch) == [h |-> Zeros3(rnn.num_layers, batch, rnn.hidden)]

\* nn.LSTM.forward(input, hx): [out, hx]
LSTM_forward(rnn, xs, hx) ==
    LSTMStack(rnn, 0, xs, IF hx = None THEN LSTMZeroState(rnn, Size(xs[0])) ELSE hx, <<>>, <<>>)
\* nn.GRU.forward(input, hx): [out, hx]
GRU_forward(rnn, xs, hx) ==
    GRUStack(rnn, 0, xs, IF hx = None THEN GRUZeroState(rnn, Size(xs[0])) ELSE hx, <<>>)

\* the concatenation with b's features first
Concat2Swapped(a, b) ==
    Eval([i \in DOMAIN a |-> Eval([bb \in DOMAIN a[i] |->
        LET wa == Size(a[i][bb])
            wb == Size(b[i][bb])
        IN  Eval([k \in 0..(wa + wb - 1) |-> IF k < wb THEN b[i][bb][k] ELSE a[i][bb][k - wb]])])])
\* th.concat((a, b), dim=2): a's features, then b's
Concat2(a, b) ==
    Eval([i \in DOMAIN a |-> Eval([bb \in DOMAIN a[i] |->
        LET wa == Size(a[i][bb])
            wb == Size(b[i][bb])
        IN  Eval([k \in 0..(wa + wb - 1) |-> IF k < wa THEN a[i][bb][k] ELSE b[i][bb][k - wa]])])])

\* the input width of mlp_out: the two branches side by side
FusedWidthSingle(mid_dim) == mid_dim
FusedWidth(mid_dim) == mid_dim * 2

(***************************************************************************)
(* RnnRegNet                                                               *)
(***************************************************************************)
\* RnnRegNet.__init__; p1 seeds the parameters of mlp_inp, branch 1 and
\* mlp_out, p2 those of branch 2
RnnRegNet_init(inp_dim, mid_dim, out_dim, num_layers, p1, p2) ==
    [kind |-> "RnnRegNet", p1 |-> p1, p2 |-> p2,
     inp_dim |-> inp_dim, mid_dim |-> mid_dim, out_dim |-> out_dim, num_layers |-> num_layers,
     rnn1 |-> [kind |-> "LSTM", in |-> mid_dim, hidden |-> mid_dim,
               num_layers |-> num_layers, p |-> p1 + 20],
     mlp1 |-> NnSeqBnMLP_init(<<mid_dim, mid_dim, mid_dim>>, FALSE, FALSE, [kind |-> "GELU"], p1 + 3),
     rnn2 |-> [kind |-> "GRU", in |-> mid_dim, hidden |-> mid_dim,
               num_layers |-> num_layers, p |-> p2 + 40],
     mlp2 |-> NnSeqBnMLP_init(<<mid_dim, mid_dim, mid_dim>>, FALSE, FALSE, [kind |-> "GELU"], p2 + 5),
     mlp_inp |-> NnSeqBnMLP_init(<<inp_dim, mid_dim, mid_dim>>, FALSE, FALSE, [kind |-> "GELU"], p1),
     mlp_out |-> NnSeqBnMLP_init(<<FusedWidth(mid_dim), FusedWidth(mid_dim), out_dim>>,
                                 FALSE, FALSE, [kind |-> "Tanh"], p1 + 7)]

\* whether the stack m accepts the rows of the sequence tensor x
MlpAccepts(m, x) == SequentialAccepts(m.mlp, Size(x[0][0]))
\* the width of the stack's result on rows of width w
MlpWidth(m, w) == SequentialWidth(m.mlp, w)

\* the value of a forward call that raised
Raised == [err |-> TRUE]

\* whether the layers along the forward path of a network get the widths
\* they were constructed for (the library raises otherwise); enc1 and enc2
\* are the widths <<taken, returned>> of the two branch encoders
PathRuns(n, w0, enc1, enc2) ==
    LET w1 == MlpWidth(n.mlp_inp, w0)
    IN  /\ SequentialAccepts(n.mlp_inp.mlp, w0)
        /\ enc1[1] = w1
        /\ enc2[1] = w1
        /\ SequentialAccepts(n.mlp1.mlp, enc1[2])
        /\ SequentialAccepts(n.mlp2.mlp, enc2[2])
        /\ SequentialAccepts(n.mlp_out.mlp,
                             MlpWidth(n.mlp1, enc1[2]) + MlpWidth(n.mlp2, enc2[2]))

\* "hid1, hid2 = (None, None) if hid is None else hid"
UnpackHidIgnored(hid0) == <<None, None>>
UnpackHid(hid0) == IF hid0 = None THEN <<None, None>> ELSE hid0

\* the pair "(hid1, hid2)" of the return statement
ReturnedHidSwapped(hid1, hid2) == <<hid2, hid1>>
ReturnedHid(hid1, hid2) == <<hid1, hid2>>

\* RnnRegNet.forward(inp, hid): the returned (out, (hid1, hid2)), with the
\* locals x (= mlp_inp(inp)), enc1 and enc2 (rnn1 and rnn2 in the source),
\* tmp1, tmp2 and tmp as they are at the return
RnnRegNet_forward(n, x0, hid0) ==
    IF ~PathRuns(n, Size(x0[0][0]), <<n.rnn1.in, n.rnn1.hidden>>, <<n.rnn2.in, n.rnn2.hidden>>)
    THEN Raised
    ELSE
    LET hid1 == UnpackHid(hid0)[1]
        hid2 == UnpackHid(hid0)[2]
        x == NnSeqBnMLP_forward(n.mlp_inp, x0)
        r1 == LSTM_forward(n.rnn1, x, hid1)
        tmp1 == NnSeqBnMLP_forward(n.mlp1, r1.out)
        r2 == GRU_forward(n.rnn2, x, hid2)
        tmp2 == NnSeqBnMLP_forward(n.mlp2, r2.out)
        tmp == Concat2(tmp1, tmp2)
    IN  [err |-> FALSE, out |-> NnSeqBnMLP_forward(n.mlp_out, tmp),
         hid |-> ReturnedHid(r1.hid, r2.hid),
         x |-> x, enc1 |-> r1.out, enc2 |-> r2.out, tmp1 |-> tmp1, tmp2 |-> tmp2, tmp |-> tmp]

(***************************************************************************)
(* DilatedCNN and DilatedCNNRegNet.  A Conv1d input has the layout         *)
(* (batch, channels, length).                                              *)
(***************************************************************************)
\* x.permute(perm): axis m of the result is axis perm[m + 1] of x
Permute3(x, perm) ==
    LET sh == Shape3(x)
        at(j, a) == j[CHOOSE m \in 1..3 : perm[m] = a]
    IN  Eval([j0 \in 0..(sh[perm[1] + 1] - 1) |->
        Eval([j1 \in 0..(sh[perm[2] + 1] - 1) |->
        Eval([j2 \in 0..(sh[perm[3] + 1] - 1) |->
            x[at(<<j0, j1, j2>>, 0)][at(<<j0, j1, j2>>, 1)][at(<<j0, j1, j2>>, 2)]])])])

\* no padding at all (padding=0)
PaddingValid(kernel_size, dilation) == <<0, 0>>
\* padding='same' of nn.Conv1d: <<left, right>>, the total
\* dilation * (kernel_size - 1) split with the odd one on the right
PaddingSame(kernel_size, dilation) ==
    LET total == dilation * (kernel_size - 1)
    IN  <<total \div 2, total - (total \div 2)>>

\* the length a convolution (stride 1) produces from length len
ConvOutLen(len, kernel_size, dilation) ==
    LET pad == PaddingSame(kernel_size, dilation)
    IN  len + pad[1] + pad[2] - dilation * (kernel_size - 1)

\* nn.Conv1d(in, out, kernel_size, dilation=dilation, padding='same')
Conv1d(cnn, x) ==
    LET len == Size(x[0][0])
        pad == PaddingSame(cnn.kernel_size, cnn.dilation)
        at(b, ci, idx) == IF idx < 0 \/ idx >= len THEN 0 ELSE x[b][ci][idx]
        tap(b, co, i, j) ==
            SumTo(Eval([ci \in 0..(cnn.in_channels - 1) |->
                    Weight(cnn.p + j, co, ci) * at(b, ci, i + j * cnn.dilation - pad[1])]),
                  cnn.in_channels)
    IN  Eval([b \in DOMAIN x |-> Eval([co \in 0..(cnn.out_channels - 1) |->
            Eval([i \in 0..(ConvOutLen(len, cnn.kernel_size, cnn.dilation) - 1) |->
                Bias(cnn.p, co)
                + Quot(SumTo(Eval([j \in 0..(cnn.kernel_size - 1) |-> tap(b, co, i, j)]),
                             cnn.kernel_size), Scale)])])])

\* nn.BatchNorm1d(channels) in training mode on (batch, channels, length):
\* statistics per channel over the batch and the length
BatchNorm1dChannels(x) ==
    LET nb == Size(x)
        len == Size(x[0][0])
        vals(c) == Eval([r \in 0..(nb * len - 1) |-> x[r \div len][c][r % len]])
        mean == Eval([c \in DOMAIN x[0] |-> MeanOf(vals(c), nb * len)])
        var == Eval([c \in DOMAIN x[0] |-> VarOf(vals(c), nb * len)])
    IN  Eval([b \in DOMAIN x |-> Eval([c \in DOMAIN x[b] |-> Eval([i \in DOMAIN x[b][c] |->
            Normalize(x[b][c][i], mean[c], var[c])])])])

\* DilatedCNN.__init__
DilatedCNN_init(in_channels, out_channels, kernel_size, dilation, p) ==
    [kind |-> "DilatedCNN", in_channels |-> in_channels, out_channels |-> out_channels,
     kernel_size |-> kernel_size, dilation |-> dilation, p |-> p]

\* DilatedCNN.forward: conv, bn, relu
DilatedCNN_forward(cnn, x) ==
    LET y == BatchNorm1dChannels(Conv1d(cnn, x))
    IN  Eval([b \in DOMAIN y |-> Eval([c \in DOMAIN y[b] |-> ReluVec(y[b][c])])])

RECURSIVE CnnBranch(_, _, _)
\* "for layer in self.cnn_branch: out = layer(out)", from layer i on
CnnBranch(layers, i, x) ==
    IF i > Len(layers) THEN x ELSE CnnBranch(layers, i + 1, DilatedCNN_forward(layers[i], x))

RECURSIVE CnnLengths(_, _, _)
\* the lengths along the branch: the length after each layer from i on
CnnLengths(layers, i, len) ==
    IF i > Len(layers) THEN <<>>
    ELSE LET l1 == ConvOutLen(len, layers[i].kernel_size, layers[i].dilation)
         IN  <<l1>> \o CnnLengths(layers, i + 1, l1)

\* DilatedCNNRegNet.__init__
DilatedCNNRegNet_init(inp_dim, mid_dim, out_dim, num_layers, kernel_size, dilation, p1, p2) ==
    [kind |-> "DilatedCNNRegNet", p1 |-> p1, p2 |-> p2,
     kernel_size |-> kernel_size, dilation |-> dilation,
     inp_dim |-> inp_dim, mid_dim |-> mid_dim, out_dim |-> out_dim, num_layers |-> num_layers,
     mlp_inp |-> NnSeqBnMLP_init(<<inp_dim, mid_dim, mid_dim>>, FALSE, TRUE, [kind |-> "GELU"], p1),
     cnn_branch1 |-> Eval([i \in 1..num_layers |->
                        DilatedCNN_init(mid_dim, mid_dim, kernel_size, dilation, p1 + 20 + i)]),
     mlp1 |-> NnSeqBnMLP_init(<<mid_dim, mid_dim, mid_dim>>, FALSE, TRUE, [kind |-> "GELU"], p1 + 3),
     cnn_branch2 |-> Eval([i \in 1..num_layers |->
                        DilatedCNN_init(mid_dim, mid_dim, kernel_size, dilation, p2 + 40 + i)]),
     mlp2 |-> NnSeqBnMLP_init(<<mid_dim, mid_dim, mid_dim>>, FALSE, TRUE, [kind |-> "GELU"], p2 + 5),
     mlp_out |-> NnSeqBnMLP_init(<<FusedWidth(mid_dim), FusedWidth(mid_dim), out_dim>>,
                                 FALSE, TRUE, [kind |-> "Tanh"], p1 + 7)]

\* whether every layer of the branch gets a non-empty length and, in
\* training mode, more than one value per channel for its BatchNorm1d
CnnBranchRuns(layers, batch, len) ==
    \A i \in 1..Len(layers) :
        /\ CnnLengths(layers, 1, len)[i] >= 1
        /\ batch * CnnLengths(layers, 1, len)[i] >= 2

\* the widths <<taken, returned>> by a branch of DilatedCNN layers
CnnBranchWidths(layers, w) ==
    IF Len(layers) = 0 THEN <<w, w>>
    ELSE IF \A i \in 2..Len(layers) : layers[i].in_channels = layers[i - 1].out_channels
         THEN <<layers[1].in_channels, layers[Len(layers)].out_channels>>
         ELSE <<-1, -1>>

\* the second element of "return out, None"
CnnReturnedHidKept(hid0) == hid0
CnnReturnedHid(hid0) == None

\* DilatedCNNRegNet.forward(inp, hid): the returned (out, None), with the
\* locals as they are at the return: xp is x after its permute(1, 2, 0),
\* y1 and y2 are out1 and out2 before their permute(2, 0, 1), enc1 and
\* enc2 are out1 and out2 after it
DilatedCNNRegNet_forward(n, x0, hid0) ==
    IF ~(/\ PathRuns(n, Size(x0[0][0]),
                     CnnBranchWidths(n.cnn_branch1, n.mid_dim),
                     CnnBranchWidths(n.cnn_branch2, n.mid_dim))
         /\ CnnBranchRuns(n.cnn_branch1, Size(x0[0]), Size(x0))
         /\ CnnBranchRuns(n.cnn_branch2, Size(x0[0]), Size(x0)))
    THEN Raised
    ELSE
    LET x == NnSeqBnMLP_forward(n.mlp_inp, x0)
        xp == Permute3(x, <<1, 2, 0>>)
        y1 == CnnBranch(n.cnn_branch1, 1, xp)
        enc1 == Permute3(y1, <<2, 0, 1>>)
        tmp1 == NnSeqBnMLP_forward(n.mlp1, enc1)
        y2 == CnnBranch(n.cnn_branch2, 1, xp)
        enc2 == Permute3(y2, <<2, 0, 1>>)
        tmp2 == NnSeqBnMLP_forward(n.mlp2, enc2)
        tmp == Concat2(tmp1, tmp2)
    IN  [err |-> FALSE, out |-> NnSeqBnMLP_forward(n.mlp_out, tmp),
         hid |-> CnnReturnedHid(hid0),
         x |-> x, xp |-> xp, y1 |-> y1, enc1 |-> enc1, y2 |-> y2, enc2 |-> enc2,
         tmp1 |-> tmp1, tmp2 |-> tmp2, tmp |-> tmp]

(***************************************************************************)
(* TransformerEncoderBlock and TransformerRegNet.  The block wraps         *)
(* nn.TransformerEncoderLayer(d_model, nhead, dim_feedforward, dropout,    *)
(* batch_first=False): multi-head self-attention over the time axis of     *)
(* each batch element, then a feed-forward stack, each followed by         *)
(* dropout, the residual sum and a LayerNorm.                              *)
(***************************************************************************)
\* the width of the feed-forward layer inside an encoder layer in the
\* model (the source leaves dim_feedforward at its default)
FfWidth == 2

\* nn.Dropout(0.1) in training mode: draw rng zeroes the entries of its
\* mask and scales the others by 1 / (1 - 0.1); draw 0 zeroes none
Dropout(v, rng, site, i, b) ==
    Eval([k \in DOMAIN v |->
        IF rng # 0 /\ (rng + site + i + 2 * b + 3 * k) % 3 = 0 THEN 0 ELSE Quot(v[k] * 10, 9)])

\* multi-head self-attention for batch element b: for every time step i
\* the attention-weighted sum over all the time steps s of the sequence
SelfAttention(enc, x, b) ==
    LET e == enc.d_model
        hd == e \div enc.nhead
        q == Eval([i \in DOMAIN x |-> LinearRow(enc.p + 1, e, x[i][b])])
        kk == Eval([i \in DOMAIN x |-> LinearRow(enc.p + 2, e, x[i][b])])
        v == Eval([i \in DOMAIN x |-> LinearRow(enc.p + 3, e, x[i][b])])
        len == Size(x)
        \* the (positive) weight head h gives step s when computing step i
        w == Eval([h \in 0..(enc.nhead - 1) |-> Eval([i \in DOMAIN x |-> Eval([s \in DOMAIN x |->
                1 + Sigmoid(Quot(SumTo(Eval([j \in 0..(hd - 1) |->
                                    q[i][h * hd + j] * kk[s][h * hd + j]]), hd), Scale))])])])
        att == Eval([i \in DOMAIN x |-> Eval([k \in 0..(e - 1) |->
                Quot(SumTo(Eval([s \in 0..(len - 1) |-> w[k \div hd][i][s] * v[s][k]]), len),
                     SumTo(w[k \div hd][i], len))])])
    IN  Eval([i \in DOMAIN x |-> LinearRow(enc.p + 4, e, att[i])])

\* TransformerEncoderBlock.__init__
TransformerEncoderBlock_init(d_model, nhead, p) ==
    [kind |-> "TransformerEncoderBlock", d_model |-> d_model, nhead |-> nhead, p |-> p]

\* TransformerEncoderBlock.forward
TransformerEncoderBlock_forward(enc, x, rng) ==
    LET sa == Eval([b \in DOMAIN x[0] |-> SelfAttention(enc, x, b)])
        x1 == Eval([i \in DOMAIN x |-> Eval([b \in DOMAIN x[i] |->
                LayerNormRow(VecAdd(x[i][b], Dropout(sa[b][i], rng, enc.p, i, b)))])])
        ff == Eval([i \in DOMAIN x |-> Eval([b \in DOMAIN x[i] |->
                LinearRow(enc.p + 6, enc.d_model,
                    Dropout(ReluVec(LinearRow(enc.p + 5, FfWidth, x1[i][b])),
                            rng, enc.p + 1, i, b))])])
    IN  Eval([i \in DOMAIN x |-> Eval([b \in DOMAIN x[i] |->
            LayerNormRow(VecAdd(x1[i][b], Dropout(ff[i][b], rng, enc.p + 2, i, b)))])])

RECURSIVE TransformerStack(_, _, _, _)
\* nn.Sequential of the encoder blocks, from block i on
TransformerStack(blocks, i, x, rng) ==
    IF i > Len(blocks) THEN x
    ELSE TransformerStack(blocks, i + 1, TransformerEncoderBlock_forward(blocks[i], x, rng), rng)

\* TransformerRegNet.__init__ (nn.MultiheadAttention requires mid_dim to be
\* a multiple of nhead)
TransformerRegNet_init(inp_dim, mid_dim, out_dim, num_layers, nhead, p1, p2) ==
    [kind |-> "TransformerRegNet", p1 |-> p1, p2 |-> p2, nhead |-> nhead,
     inp_dim |-> inp_dim, mid_dim |-> mid_dim, out_dim |-> out_dim, num_layers |-> num_layers,
     mlp_inp |-> NnSeqBnMLP_init(<<inp_dim, mid_dim, mid_dim>>, FALSE, TRUE, [kind |-> "GELU"], p1),
     transformer1 |-> Eval([i \in 1..num_layers |->
                        TransformerEncoderBlock_init(mid_dim, nhead, p1 + 20 + 7 * i)]),
     mlp1 |-> NnSeqBnMLP_init(<<mid_dim, mid_dim, mid_dim>>, FALSE, TRUE, [kind |-> "GELU"], p1 + 3),
     transformer2 |-> Eval([i \in 1..num_layers |->
                        TransformerEncoderBlock_init(mid_dim, nhead, p2 + 60 + 7 * i)]),
     mlp2 |-> NnSeqBnMLP_init(<<mid_dim, mid_dim, mid_dim>>, FALSE, TRUE, [kind |-> "GELU"], p2 + 5),
     mlp_out |-> NnSeqBnMLP_init(<<FusedWidth(mid_dim), FusedWidth(mid_dim), out_dim>>,
                                 FALSE, TRUE, [kind |-> "Tanh"], p1 + 7)]

\* the widths <<taken, returned>> by a stack of encoder blocks
TransformerWidths(blocks, w) ==
    IF Len(blocks) = 0 THEN <<w, w>>
    ELSE IF \A i \in 2..Len(blocks) : blocks[i].d_model = blocks[i - 1].d_model
         THEN <<blocks[1].d_model, blocks[Len(blocks)].d_model>>
         ELSE <<-1, -1>>

\* the second element of "return out, None"
TransformerReturnedHid(hid0) == None

\* TransformerRegNet.forward(inp, hid) under the dropout draw rng: the
\* returned (out, None), with the locals as they are at the return (enc1
\* and enc2 are transformer1(x) and transformer2(x))
TransformerRegNet_forward(n, x0, hid0, rng) ==
    IF ~PathRuns(n, Size(x0[0][0]),
                 TransformerWidths(n.transformer1, n.mid_dim),
                 TransformerWidths(n.transformer2, n.mid_dim))
    THEN Raised
    ELSE
    LET x == NnSeqBnMLP_forward(n.mlp_inp, x0)
        enc1 == TransformerStack(n.transformer1, 1, x, rng)
        tmp1 == NnSeqBnMLP_forward(n.mlp1, enc1)
        enc2 == TransformerStack(n.transformer2, 1, x, rng)
        tmp2 == NnSeqBnMLP_forward(n.mlp2, enc2)
        tmp == Concat2(tmp1, tmp2)
    IN  [err |-> FALSE, out |-> NnSeqBnMLP_forward(n.mlp_out, tmp),
         hid |-> TransformerReturnedHid(hid0),
         x |-> x, enc1 |-> enc1, enc2 |-> enc2, tmp1 |-> tmp1, tmp2 |-> tmp2, tmp |-> tmp]

(***************************************************************************)
(* get_obj_value (the same static method in the three networks).           *)
(***************************************************************************)
\* the start of the slice "[wup_dim:]" on an axis of length len
SliceStartFromEnd(wup_dim, len) == Max(len - Max(wup_dim, 0), 0)
SliceStart(wup_dim, len) ==
    IF wup_dim < 0 THEN Max(len + wup_dim, 0) ELSE Min(wup_dim, len)

\* an elementwise criterion (reduction='none'): the squared error
Criterion(out0, lab) ==
    Eval([i \in DOMAIN out0 |-> Eval([b \in DOMAIN out0[i] |-> Eval([k \in DOMAIN out0[i][b] |->
        Quot((out0[i][b][k] - lab[i][b][k]) * (out0[i][b][k] - lab[i][b][k]), Scale)])])])

\* get_obj_value(criterion, out, lab, wup_dim): criterion(out, lab)[wup_dim:, :, :],
\* as its shape and its entries
get_obj_value(out0, lab, wup_dim) ==
    LET c == Criterion(out0, lab)
        start == SliceStart(wup_dim, Size(c))
    IN  [shape |-> <<Size(c) - start, Size(c[0]), Size(c[0][0])>>,
         data |-> Eval([i \in 0..(Size(c) - start - 1) |-> c[i + start]])]

(***************************************************************************)
(* Inputs.                                                                 *)
(***************************************************************************)
\* entry number pos of input pattern s: one of -1.0, 0.0, 1.0
PatternEntry(s, pos) == ((((s + 1) * (pos + 1) + (s \div 3) * pos * pos + s) % 3) - 1) * Scale
\* th.randn(d0, d1, d2): the sequence tensor of pattern s
SeqTensor(s, d0, d1, d2) ==
    Eval([i \in 0..(d0 - 1) |-> Eval([b \in 0..(d1 - 1) |->
        Eval([k \in 0..(d2 - 1) |-> PatternEntry(s, (i * d1 + b) * d2 + k)])])])
\* the input patterns and the parameter seeds the model draws from
InSeeds == 0..2
ParamSeeds == {0, 1}

\* another input value than v: -1.0 -> 0.0 -> 1.0 -> -1.0
OtherVal(v) == IF v >= Scale THEN -Scale ELSE IF v >= 0 THEN Scale ELSE 0
\* x with the entry at (i, b, k) replaced by another value
Perturb(x, i, b, k) == [x EXCEPT ![i][b][k] = OtherVal(@)]

\* the (p1, p2) parameter seeds a network is constructed with
ParamPairs == {<<0, 1>>, <<1, 0>>}
\* the state untouched by a specification's Init
Idle(names) ==
    /\ ("net" \in names) \/ net = None
    /\ ("inp" \in names) \/ inp = None
    /\ ("hid" \in names) \/ hid = None
    /\ ("ret" \in names) \/ ret = None
    /\ ("calls" \in names) \/ calls = 0
    /\ ("obj" \in names) \/ obj = None
    /\ ("t" \in names) \/ t = 0
    /\ ("output_seq" \in names) \/ output_seq = <<>>
    /\ ("output_seq2" \in names) \/ output_seq2 = None

(***************************************************************************)
(* SpecMlp: an NnSeqBnMLP is constructed and applied to sequence tensors.  *)
(***************************************************************************)
\* the lengths of the dims tuple
DimsLens == {2, 3, 4}
\* the feature widths of the stack
Widths == {1, 2}
DimsSet == UNION {[1..n -> Widths] : n \in DimsLens}
\* nn.GELU() and nn.Tanh(), the activation modules the networks pass
nn_GELU == [kind |-> "GELU"]
nn_Tanh == [kind |-> "Tanh"]
Activations == {None, nn_GELU, nn_Tanh}

InitMlp ==
    /\ pc = "new"
    /\ Idle({})

\* NnSeqBnMLP(dims, if_inp_norm, if_layer_norm, activation)
MlpConstruct ==
    /\ pc = "new"
    /\ \E dims \in DimsSet, if_inp_norm \in BOOLEAN, if_layer_norm \in BOOLEAN,
          activation \in Activations, p \in ParamSeeds :
            net' = NnSeqBnMLP_init(dims, if_inp_norm, if_layer_norm, activation, p)
    /\ pc' = "ready"
    /\ UNCHANGED <<inp, hid, ret, calls, obj, t, output_seq, output_seq2>>

\* out = mlp(seq) on a tensor of shape (d0, d1, dims[0]); BatchNorm1d in
\* training mode needs more than one row
MlpForward ==
    /\ pc = "ready"
    /\ \E s \in InSeeds, d0 \in 1..MaxSeqLen, d1 \in 1..MaxBatch :
        /\ net.if_inp_norm => d0 * d1 >= 2
        /\ inp' = SeqTensor(s, d0, d1, net.dims[1])
        /\ ret' = [out |-> NnSeqBnMLP_forward(net, SeqTensor(s, d0, d1, net.dims[1]))]
    /\ pc' = "forwarded"
    /\ UNCHANGED <<net, hid, calls, obj, t, output_seq, output_seq2>>

NextMlp == MlpConstruct \/ MlpForward

SpecMlp == InitMlp /\ [][NextMlp]_vars

\* the stack's result for one row
RowResult(m, row) == Sequential(m.mlp, Eval([r \in {0} |-> row]))[0]

\* the output has shape (d0, d1, dims[-1])
MlpShapeKept ==
    Shape3(ret.out) = <<Size(inp), Size(inp[0]), net.dims[Len(net.dims)]>>
\* the output at (i, b) is the stack's result for the input row at (i, b)
MlpRowWise ==
    \A i \in DOMAIN inp : \A b \in DOMAIN inp[i] :
        ret.out[i][b] = RowResult(net, inp[i][b])
\* the output at (i, b) does not change when another position's input does
MlpIndependent ==
    \A i2 \in DOMAIN inp : \A b2 \in DOMAIN inp[i2] :
    \A k \in DOMAIN inp[i2][b2] :
        LET out2 == NnSeqBnMLP_forward(net, Perturb(inp, i2, b2, k))
        IN  \A i \in DOMAIN inp : \A b \in DOMAIN inp[i] :
                (<<i2, b2>> # <<i, b>>) => out2[i][b] = ret.out[i][b]

\* C4 as stated: for every configuration, if_inp_norm included, forward
\* keeps the shape and the output at (t, b) is the stack's result for the
\* input row at (t, b) and depends on no other position.
C4_AnyConfiguration ==
    (pc = "forwarded") => (MlpShapeKept /\ MlpIndependent)

\* C4 amended: with if_inp_norm = False, forward keeps the shape (d0, d1,
\* dims[-1]) and the output at (t, b) is the stack's result for the input
\* row at (t, b), and depends on no other position.
C4_RowWiseWithoutInpNorm ==
    (pc = "forwarded" /\ ~net.if_inp_norm) =>
        (MlpShapeKept /\ MlpRowWise /\ MlpIndependent)

\* a forward without input normalization on a tensor with several time
\* steps and batch elements whose rows differ
C4_Witness ==
    /\ pc = "forwarded"
    /\ ~net.if_inp_norm
    /\ net.if_layer_norm
    /\ Len(net.dims) = 3
    /\ Size(inp) >= 2
    /\ Size(inp[0]) >= 2
    /\ ret.out[0][1] # ret.out[1][0]

\* the positions of the Linear layers of self.mlp
LinearPositions(m) == {i \in 1..Len(m.mlp) : m.mlp[i].kind = "Linear"}

\* C9: the module __init__ selects for layer_init_with_orthogonal(std=0.1)
\* is the last Linear layer of the stack, the one producing dims[-1]
\* features, and it is the only layer initialised this way.
C9_LastLinearInitialised ==
    (pc # "new") =>
        \E pos \in 1..Len(net.mlp) :
            /\ net.orthogonal = {pos}
            /\ net.mlp[pos].kind = "Linear"
            /\ net.mlp[pos].out = net.dims[Len(net.dims)]
            /\ \A j \in LinearPositions(net) : j <= pos

\* a stack with input normalization, layer normalization and an output
\* activation has been constructed
C9_Witness ==
    /\ pc = "ready"
    /\ net.if_inp_norm
    /\ net.if_layer_norm
    /\ net.activation = nn_Tanh
    /\ Len(net.dims) = 3
    /\ Len(net.mlp) = 6

(***************************************************************************)
(* SpecTrading: check_rnn_in_real_trading.  The sequence is fed to an      *)
(* RnnRegNet one time step at a time, threading hidden_state (hid), then   *)
(* once as a whole.                                                        *)
(***************************************************************************)
\* th.cat(list, dim=0) of a list of tensors
RECURSIVE Cat0(_)
Cat0(list) ==
    IF list = <<>> THEN <<>>
    ELSE LET a == Head(list)
             rest == Cat0(Tail(list))
             la == Size(a)
         IN  Eval([i \in 0..(la + Size(rest) - 1) |-> IF i < la THEN a[i] ELSE rest[i - la]])

\* input_seq[t, :, :].unsqueeze(0)
InputAt(input_seq, i) == (0 :> input_seq[i])

\* rnn = RnnRegNet(input_size, mid_dim, 1, num_layers);
\* input_seq = th.randn(seq_length, batch, input_size); hidden_state = None
InitTrading ==
    /\ pc = "loop"
    /\ \E input_size \in {1, 2}, mid_dim \in {1, 2}, num_layers \in {1, 2}, pp \in ParamPairs :
        net = RnnRegNet_init(input_size, mid_dim, 1, num_layers, pp[1], pp[2])
    /\ \E s \in InSeeds, seq_length \in 1..MaxSeqLen, batch \in 1..MaxBatch :
        inp = SeqTensor(s, seq_length, batch, net.inp_dim)
    /\ Idle({"net", "inp"})

\* one pass of "for t in range(seq_length)"
TradingStep ==
    /\ pc = "loop"
    /\ t < Size(inp)
    /\ LET r == RnnRegNet_forward(net, InputAt(inp, t), hid)
       IN  /\ hid' = r.hid
           /\ output_seq' = Append(output_seq, r.out)
    /\ t' = t + 1
    /\ UNCHANGED <<pc, net, inp, ret, calls, obj, output_seq2>>

\* output_seq = th.cat(output_seq, dim=0)
TradingCat ==
    /\ pc = "loop"
    /\ t >= Size(inp)
    /\ output_seq' = Cat0(output_seq)
    /\ pc' = "cat"
    /\ UNCHANGED <<net, inp, hid, ret, calls, obj, t, output_seq2>>

\* output_seq2, _ = rnn(input_seq)
TradingBatched ==
    /\ pc = "cat"
    /\ output_seq2' = RnnRegNet_forward(net, inp, None).out
    /\ pc' = "done"
    /\ UNCHANGED <<net, inp, hid, ret, calls, obj, t, output_seq>>

NextTrading == TradingStep \/ TradingCat \/ TradingBatched

SpecTrading == InitTrading /\ [][NextTrading]_vars

\* C1: feeding the T time steps one at a time, threading the returned
\* hidden-state pair, and concatenating the T outputs gives the same
\* output sequence as one forward call on the whole sequence with hid=None.
C1_StepwiseEqualsBatched ==
    (pc = "done") => (output_seq = output_seq2)

\* a run over several time steps and batch elements of a two-layer network
\* whose outputs differ between the steps
C1_Witness ==
    /\ pc = "done"
    /\ Size(inp) >= 2
    /\ Size(inp[0]) >= 2
    /\ net.num_layers = 2
    /\ net.mid_dim = 2
    /\ output_seq[0] # output_seq[1]
    /\ output_seq = output_seq2

(***************************************************************************)
(* SpecRnn: successive calls of RnnRegNet.forward, each with the pair the  *)
(* previous call returned.                                                 *)
(***************************************************************************)
\* most forward calls in a row
MaxCalls == 2
\* the <<inp_dim, mid_dim, out_dim, num_layers>> of the RnnRegNets
RnnConfigs == {<<1, 1, 1, 1>>, <<2, 2, 1, 2>>, <<1, 2, 2, 2>>, <<2, 1, 2, 1>>}

RnnConstruct ==
    /\ pc = "new"
    /\ \E c \in RnnConfigs, pp \in ParamPairs :
        net' = RnnRegNet_init(c[1], c[2], c[3], c[4], pp[1], pp[2])
    /\ pc' = "ready"
    /\ UNCHANGED <<inp, hid, ret, calls, obj, t, output_seq, output_seq2>>

\* out, hid = net(inp): the first call, hid=None
RnnForward ==
    /\ pc = "ready"
    /\ net.kind = "RnnRegNet"
    /\ \E s \in InSeeds, seq_len \in 1..MaxSeqLen, batch \in 1..MaxBatch :
        /\ inp' = SeqTensor(s, seq_len, batch, net.inp_dim)
        /\ ret' = RnnRegNet_forward(net, SeqTensor(s, seq_len, batch, net.inp_dim), None)
    /\ hid' = None
    /\ calls' = 1
    /\ pc' = "called"
    /\ UNCHANGED <<net, obj, t, output_seq, output_seq2>>

\* out, hid = net(inp, hid): a later call on the next stretch of the series
\* (same batch), with the pair the previous call returned
RnnForwardAgain ==
    /\ pc = "called"
    /\ net.kind = "RnnRegNet"
    /\ calls < MaxCalls
    /\ \E seq_len \in 1..MaxSeqLen :
        LET x == SeqTensor((calls + seq_len) % 3, seq_len, Size(inp[0]), net.inp_dim)
        IN  /\ inp' = x
            /\ ret' = RnnRegNet_forward(net, x, ret.hid)
    /\ hid' = ret.hid
    /\ calls' = calls + 1
    /\ UNCHANGED <<pc, net, obj, t, output_seq, output_seq2>>

NextRnn == RnnConstruct \/ RnnForward \/ RnnForwardAgain

SpecRnn == InitMlp /\ [][NextRnn]_vars

\* a pair (hid1, hid2) forward can unpack and hand to its two branches:
\* hid1 an LSTM state (h_n, c_n), hid2 a GRU state h_n, each of shape
\* (num_layers, batch, mid_dim)
HidAccepted(n, h0, batch) ==
    /\ DOMAIN h0 = {1, 2}
    /\ DOMAIN h0[1] = {"h", "c"}
    /\ DOMAIN h0[2] = {"h"}
    /\ Shape3(h0[1].h) = <<n.num_layers, batch, n.mid_dim>>
    /\ Shape3(h0[1].c) = <<n.num_layers, batch, n.mid_dim>>
    /\ Shape3(h0[2].h) = <<n.num_layers, batch, n.mid_dim>>

\* C2: forward on (seq_len, batch, inp_dim) returns (out, (hid1, hid2))
\* with out of shape (seq_len, batch, out_dim), hid1 the updated state of
\* the LSTM branch and hid2 that of the GRU branch, in the order in which
\* forward unpacks hid, so the pair is accepted by the next call; hid=None
\* starts both branches from their default (zero) state.
C2_HiddenPairThreads ==
    (pc = "called") =>
        /\ HidAccepted(net, ret.hid, Size(inp[0]))
        /\ Shape3(ret.out) = <<Size(inp), Size(inp[0]), net.out_dim>>
        /\ ret.hid[1] = LSTM_forward(net.rnn1, ret.x, IF hid = None THEN None ELSE hid[1]).hid
        /\ ret.hid[2] = GRU_forward(net.rnn2, ret.x, IF hid = None THEN None ELSE hid[2]).hid
        /\ (hid = None) =>
                ret = RnnRegNet_forward(net, inp,
                        <<LSTMZeroState(net.rnn1, Size(inp[0])), GRUZeroState(net.rnn2, Size(inp[0]))>>)

\* a second call in a row, with the pair returned by the first, on a
\* two-layer network whose state is not the default one
C2_Witness ==
    /\ pc = "called"
    /\ calls = 2
    /\ hid # None
    /\ net.num_layers = 2
    /\ Size(inp) >= 2
    /\ ret.hid[1] # LSTMZeroState(net.rnn1, Size(inp[0]))
    /\ ret.hid[2] # hid[2]

(***************************************************************************)
(* SpecNet: a network of one of the three kinds is constructed, called on  *)
(* a sequence tensor, and its output scored with get_obj_value.            *)
(***************************************************************************)
\* the <<inp_dim, mid_dim, out_dim, num_layers, kernel_size, dilation>> of
\* the DilatedCNNRegNets
CnnConfigs ==
    {<<1, 1, 1, 0, 3, 2>>, <<2, 2, 1, 1, 3, 2>>, <<1, 2, 2, 2, 3, 1>>, <<2, 1, 2, 1, 2, 1>>,
     <<1, 2, 1, 2, 1, 1>>, <<1, 1, 2, 2, 2, 2>>, <<1, 1, 1, 1, 4, 1>>}
\* the <<inp_dim, mid_dim, out_dim, num_layers, nhead>> of the
\* TransformerRegNets (mid_dim a multiple of nhead)
TransformerConfigs ==
    {<<1, 1, 1, 1, 1>>, <<2, 2, 1, 1, 2>>, <<1, 2, 2, 2, 1>>, <<2, 2, 2, 2, 2>>}
\* a hid argument other than None
SomeHid ==
    <<[h |-> Zeros3(1, 1, 1), c |-> Zeros3(1, 1, 1)], [h |-> Zeros3(1, 1, 1)]>>
\* the dropout draws of a call
Draws == {0, 1}

CnnConstruct ==
    /\ pc = "new"
    /\ \E c \in CnnConfigs, pp \in ParamPairs :
        net' = DilatedCNNRegNet_init(c[1], c[2], c[3], c[4], c[5], c[6], pp[1], pp[2])
    /\ pc' = "ready"
    /\ UNCHANGED <<inp, hid, ret, calls, obj, t, output_seq, output_seq2>>

TransformerConstruct ==
    /\ pc = "new"
    /\ \E c \in TransformerConfigs, pp \in ParamPairs :
        net' = TransformerRegNet_init(c[1], c[2], c[3], c[4], c[5], pp[1], pp[2])
    /\ pc' = "ready"
    /\ UNCHANGED <<inp, hid, ret, calls, obj, t, output_seq, output_seq2>>

\* out, hid = net.forward(inp, hid) of a DilatedCNNRegNet, for any hid
CnnForward ==
    /\ pc = "ready"
    /\ net.kind = "DilatedCNNRegNet"
    /\ \E s \in InSeeds, seq_len \in 1..MaxSeqLen, batch \in 1..MaxBatch, h0 \in {None, SomeHid} :
        /\ inp' = SeqTensor(s, seq_len, batch, net.inp_dim)
        /\ hid' = h0
        /\ ret' = DilatedCNNRegNet_forward(net, SeqTensor(s, seq_len, batch, net.inp_dim), h0)
    /\ calls' = 1
    /\ pc' = "called"
    /\ UNCHANGED <<net, obj, t, output_seq, output_seq2>>

\* out, hid = net.forward(inp, hid) of a TransformerRegNet, for any hid;
\* t holds the dropout draw of the call
TransformerForward ==
    /\ pc = "ready"
    /\ net.kind = "TransformerRegNet"
    /\ \E s \in InSeeds, seq_len \in 1..MaxSeqLen, batch \in 1..MaxBatch,
          h0 \in {None, SomeHid}, rng \in Draws :
        /\ inp' = SeqTensor(s, seq_len, batch, net.inp_dim)
        /\ hid' = h0
        /\ t' = rng
        /\ ret' = TransformerRegNet_forward(net, SeqTensor(s, seq_len, batch, net.inp_dim), h0, rng)
    /\ calls' = 1
    /\ pc' = "called"
    /\ UNCHANGED <<net, obj, output_seq, output_seq2>>

\* obj = net.get_obj_value(criterion, out, lab, wup_dim)
GetObjValue ==
    /\ pc = "called"
    /\ ~ret.err
    /\ \E wup_dim \in (-1)..(Size(inp) + 1) :
        LET lab == SeqTensor(1, Size(inp), Size(inp[0]), net.out_dim)
        IN  obj' = [wup_dim |-> wup_dim, lab |-> lab,
                    value |-> get_obj_value(ret.out, lab, wup_dim)]
    /\ pc' = "scored"
    /\ UNCHANGED <<net, inp, hid, ret, calls, t, output_seq, output_seq2>>

NextNet ==
    \/ RnnConstruct
    \/ CnnConstruct
    \/ TransformerConstruct
    \/ RnnForward
    \/ CnnForward
    \/ TransformerForward
    \/ GetObjValue

SpecNet == InitMlp /\ [][NextNet]_vars

\* the number of features of a sequence tensor
WidthOf(x) == Size(x[0][0])

\* the forward call of the network n on x0 with hid h0 under dropout draw rng
Forward(n, x0, h0, rng) ==
    CASE n.kind = "RnnRegNet" -> RnnRegNet_forward(n, x0, h0)
      [] n.kind = "DilatedCNNRegNet" -> DilatedCNNRegNet_forward(n, x0, h0)
      [] n.kind = "TransformerRegNet" -> TransformerRegNet_forward(n, x0, h0, rng)

\* the network n with the parameters of its two branches reseeded
Reseeded(n, p1, p2) ==
    CASE n.kind = "RnnRegNet" ->
            [RnnRegNet_init(n.inp_dim, n.mid_dim, n.out_dim, n.num_layers, p1, p2)
                EXCEPT !.mlp_inp = n.mlp_inp, !.mlp_out = n.mlp_out]
      [] n.kind = "DilatedCNNRegNet" ->
            [DilatedCNNRegNet_init(n.inp_dim, n.mid_dim, n.out_dim, n.num_layers,
                                   n.kernel_size, n.dilation, p1, p2)
                EXCEPT !.mlp_inp = n.mlp_inp, !.mlp_out = n.mlp_out]
      [] n.kind = "TransformerRegNet" ->
            [TransformerRegNet_init(n.inp_dim, n.mid_dim, n.out_dim, n.num_layers,
                                    n.nhead, p1, p2)
                EXCEPT !.mlp_inp = n.mlp_inp, !.mlp_out = n.mlp_out]

\* whether the library runs the call: BatchNorm1d in training mode needs
\* more than one value per channel
Runnable ==
    (net.kind = "DilatedCNNRegNet" /\ net.num_layers >= 1) => Size(inp) * Size(inp[0]) >= 2

\* a DilatedCNNRegNet call that returned
CnnCalled == pc = "called" /\ net.kind = "DilatedCNNRegNet" /\ ~ret.err

\* the output at time step i does not change when the input at a later
\* time step does
OutputCausal ==
    \A i2 \in DOMAIN inp : \A b2 \in DOMAIN inp[i2] : \A k \in DOMAIN inp[i2][b2] :
        LET r2 == DilatedCNNRegNet_forward(net, Perturb(inp, i2, b2, k), hid)
        IN  \A i \in DOMAIN inp : (i < i2) => r2.out[i] = ret.out[i]
\* the convolution of every layer, at position i, does not change when its
\* input at a later position does
ConvolutionsCausal ==
    \A layers \in {net.cnn_branch1, net.cnn_branch2} : \A l \in 1..Len(layers) :
    \A i2 \in DOMAIN inp : \A b2 \in DOMAIN ret.xp : \A c2 \in DOMAIN ret.xp[b2] :
        LET y == Conv1d(layers[l], ret.xp)
            y2 == Conv1d(layers[l], [ret.xp EXCEPT ![b2][c2][i2] = @ + Scale])
        IN  \A b \in DOMAIN y : \A c \in DOMAIN y[b] : \A i \in DOMAIN y[b][c] :
                (i < i2) => y2[b][c][i] = y[b][c][i]

\* C3 as stated: the branches of DilatedCNNRegNet are stacks of causal
\* convolutions, and the output of forward at time step i does not change
\* when the input at a time step later than i changes.
C3_Causal ==
    CnnCalled => (ConvolutionsCausal /\ OutputCausal)

\* C5: for every hid argument, DilatedCNNRegNet.forward and
\* TransformerRegNet.forward return None as the second element and the
\* output they return with hid=None.
C5_NoHiddenState ==
    (pc = "called" /\ net.kind \in {"DilatedCNNRegNet", "TransformerRegNet"}) =>
        LET r0 == Forward(net, inp, None, t)
        IN  /\ ret.err = r0.err
            /\ ~ret.err => (ret.hid = None /\ ret.out = r0.out)

\* a two-layer DilatedCNNRegNet called with a hid other than None returned
\* an output that varies over the time steps
C5_Witness ==
    /\ CnnCalled
    /\ hid # None
    /\ net.num_layers = 2
    /\ Size(inp) >= 2
    /\ ret.out[0] # ret.out[1]

\* the branch encoder number br of the network n applied to x with state hx
Encoder(n, br, x, hx, rng) ==
    CASE n.kind = "RnnRegNet" ->
            IF br = 1 THEN LSTM_forward(n.rnn1, x, hx).out ELSE GRU_forward(n.rnn2, x, hx).out
      [] n.kind = "DilatedCNNRegNet" ->
            Permute3(CnnBranch(IF br = 1 THEN n.cnn_branch1 ELSE n.cnn_branch2, 1,
                               Permute3(x, <<1, 2, 0>>)), <<2, 0, 1>>)
      [] n.kind = "TransformerRegNet" ->
            TransformerStack(IF br = 1 THEN n.transformer1 ELSE n.transformer2, 1, x, rng)

\* an incoming state of the LSTM branch and one of the GRU branch, neither
\* the default one
OtherHid1(n, batch) ==
    [h |-> Eval([l \in 0..(n.num_layers - 1) |-> Eval([b \in 0..(batch - 1) |->
                Eval([k \in 0..(n.mid_dim - 1) |-> Scale \div 2])])]),
     c |-> Eval([l \in 0..(n.num_layers - 1) |-> Eval([b \in 0..(batch - 1) |->
                Eval([k \in 0..(n.mid_dim - 1) |-> -Scale])])])]
OtherHid2(n, batch) ==
    [h |-> Eval([l \in 0..(n.num_layers - 1) |-> Eval([b \in 0..(batch - 1) |->
                Eval([k \in 0..(n.mid_dim - 1) |-> Scale \div 2])])])]

\* the call of the state with the parameters of branch 2 reseeded and
\* another incoming hid2, and the one with those of branch 1 and another
\* incoming hid1
OtherBranch2 ==
    Forward(Reseeded(net, net.p1, net.p2 + 2), inp,
            <<UnpackHid(hid)[1], OtherHid2(net, Size(inp[0]))>>, t)
OtherBranch1 ==
    Forward(Reseeded(net, net.p1 + 2, net.p2), inp,
            <<OtherHid1(net, Size(inp[0])), UnpackHid(hid)[2]>>, t)

\* C6: both branches encode the same output of mlp_inp; tmp1 (and hid1 of
\* RnnRegNet) does not change with the parameters and the incoming state of
\* branch 2, nor tmp2 (and hid2) with those of branch 1; the fused tensor
\* holds tmp1 at the features 0..mid_dim-1 and tmp2 at mid_dim..2*mid_dim-1.
C6_BranchesIndependent ==
    (pc = "called" /\ ~ret.err) =>
        /\ ret.enc1 = Encoder(net, 1, ret.x, UnpackHid(hid)[1], t)
        /\ ret.enc2 = Encoder(net, 2, ret.x, UnpackHid(hid)[2], t)
        /\ OtherBranch2.tmp1 = ret.tmp1
        /\ OtherBranch1.tmp2 = ret.tmp2
        /\ (net.kind = "RnnRegNet") =>
                /\ OtherBranch2.hid[1] = ret.hid[1]
                /\ OtherBranch1.hid[2] = ret.hid[2]
        /\ \A i \in DOMAIN inp : \A b \in DOMAIN inp[i] :
                /\ DOMAIN ret.tmp[i][b] = 0..(2 * net.mid_dim - 1)
                /\ \A k \in 0..(net.mid_dim - 1) :
                        /\ ret.tmp[i][b][k] = ret.tmp1[i][b][k]
                        /\ ret.tmp[i][b][net.mid_dim + k] = ret.tmp2[i][b][k]

\* an RnnRegNet call whose two branches give different results, each of
\* which changes when its own parameters and incoming state do
C6_Witness ==
    /\ pc = "called"
    /\ ~ret.err
    /\ net.kind = "RnnRegNet"
    /\ net.mid_dim = 2
    /\ ret.tmp1 # ret.tmp2
    /\ OtherBranch2.tmp2 # ret.tmp2
    /\ OtherBranch1.tmp1 # ret.tmp1
    /\ OtherBranch2.hid[2] # ret.hid[2]
    /\ OtherBranch1.hid[1] # ret.hid[1]

\* the permute to (batch, mid_dim, seq_len) and the permute back keep time
\* step i and batch element b in place
PermutesKeepPlaces ==
    \A i \in DOMAIN inp : \A b \in DOMAIN inp[i] : \A k \in 0..(net.mid_dim - 1) :
        /\ ret.xp[b][k][i] = ret.x[i][b][k]
        /\ ret.enc1[i][b][k] = ret.y1[b][k][i]
        /\ ret.enc2[i][b][k] = ret.y2[b][k][i]

\* C7: DilatedCNNRegNet.forward on (seq_len, batch, inp_dim) permutes to
\* (batch, mid_dim, seq_len), every convolution layer of both branches
\* keeps the length seq_len, the permute back gives (seq_len, batch,
\* mid_dim) with every time step and batch element in place, and out has
\* shape (seq_len, batch, out_dim).
C7_LayoutKept ==
    (pc = "called" /\ net.kind = "DilatedCNNRegNet" /\ Runnable) =>
        LET seq_len == Size(inp)
            batch == Size(inp[0])
        IN  /\ ~ret.err
            /\ Shape3(ret.xp) = <<batch, net.mid_dim, seq_len>>
            /\ \A l \in 1..net.num_layers :
                    /\ CnnLengths(net.cnn_branch1, 1, seq_len)[l] = seq_len
                    /\ CnnLengths(net.cnn_branch2, 1, seq_len)[l] = seq_len
            /\ Shape3(ret.y1) = <<batch, net.mid_dim, seq_len>>
            /\ Shape3(ret.y2) = <<batch, net.mid_dim, seq_len>>
            /\ Shape3(ret.enc1) = <<seq_len, batch, net.mid_dim>>
            /\ Shape3(ret.enc2) = <<seq_len, batch, net.mid_dim>>
            /\ PermutesKeepPlaces
            /\ Shape3(ret.out) = <<seq_len, batch, net.out_dim>>

\* a two-layer DilatedCNNRegNet with an even kernel and dilation 2 ran on
\* several time steps and batch elements, its branch result differing
\* between time steps
C7_Witness ==
    /\ CnnCalled
    /\ net.num_layers = 2
    /\ net.kernel_size = 2
    /\ net.dilation = 2
    /\ Size(inp) >= 2
    /\ Size(inp[0]) >= 2
    /\ ret.y1[0][0][0] # ret.y1[0][0][1]

\* C8: for 0 <= wup_dim, get_obj_value returns the criterion values with
\* the first wup_dim time steps dropped: shape (seq_len - wup_dim, batch,
\* out_dim) and entry (i, b, k) the criterion value at (i + wup_dim, b, k)
\* when wup_dim <= seq_len, and an empty result when wup_dim >= seq_len.
C8_WarmupDropped ==
    (pc = "scored" /\ obj.wup_dim >= 0) =>
        LET c == Criterion(ret.out, obj.lab)
            seq_len == Size(inp)
            kept == Max(seq_len - obj.wup_dim, 0)
        IN  /\ obj.value.shape = <<kept, Size(inp[0]), net.out_dim>>
            /\ DOMAIN obj.value.data = 0..(kept - 1)
            /\ \A i \in 0..(kept - 1) : obj.value.data[i] = c[i + obj.wup_dim]
            /\ (obj.wup_dim >= seq_len) => obj.value.data = <<>>

\* a score that drops some but not all of the time steps, of an output that
\* varies over them
C8_Witness ==
    /\ pc = "scored"
    /\ obj.wup_dim >= 1
    /\ obj.wup_dim < Size(inp)
    /\ obj.value.data[0] # Criterion(ret.out, obj.lab)[0]

\* the stacks of a network
Stacks(n) == {n.mlp_inp, n.mlp1, n.mlp2, n.mlp_out}

\* C10: along the forward path mlp_inp maps inp_dim to mid_dim features,
\* each branch encoder and its MLP block take and return mid_dim, the
\* concatenation has 2*mid_dim features, the input width of mlp_out, and
\* inside every NnSeqBnMLP each layer receives the width it was constructed
\* with.
C10_WidthsConsistent ==
    (pc = "called" /\ Runnable) =>
        /\ ~ret.err
        /\ WidthOf(inp) = net.inp_dim
        /\ WidthOf(ret.x) = net.mid_dim
        /\ WidthOf(ret.enc1) = net.mid_dim
        /\ WidthOf(ret.enc2) = net.mid_dim
        /\ WidthOf(ret.tmp1) = net.mid_dim
        /\ WidthOf(ret.tmp2) = net.mid_dim
        /\ WidthOf(ret.tmp) = 2 * net.mid_dim
        /\ net.mlp_out.dims[1] = 2 * net.mid_dim
        /\ WidthOf(ret.out) = net.out_dim
        /\ \A m \in Stacks(net) :
                /\ SequentialAccepts(m.mlp, m.dims[1])
                /\ SequentialWidth(m.mlp, m.dims[1]) = m.dims[Len(m.dims)]

\* a two-layer TransformerRegNet whose three widths are not all the same
\* has been called
C10_Witness ==
    /\ pc = "called"
    /\ ~ret.err
    /\ net.kind = "TransformerRegNet"
    /\ net.num_layers = 2
    /\ net.inp_dim # net.mid_dim
    /\ Size(inp) >= 2
    /\ ret.out[0] # ret.out[1]

====
